---- MODULE Spec2Model ----
(***************************************************************************)
(* DrivePurge AI: the audit-and-remediation pipeline of App.tsx on top of  *)
(* GoogleDriveService.  The React component is modelled as a state machine *)
(* over its useState cells; every async handler is a task whose awaits are *)
(* the points where other events may interleave.  The three copies of the  *)
(* component kept in src/App.tsx and the first two copies kept in          *)
(* src/unnamed/part_001 are the values of `variant`.                       *)
(***************************************************************************)
EXTENDS Integers, Sequences, FiniteSets, TLC

VARIABLES
    variant,          \* which copy of the App component runs
    state,            \* AppState
    isAuthenticated,  \* React cell set by the auth-change callback
    files,            \* DriveFile[] (the ids, in order)
    candidates,       \* CleanupCandidate[] ([id, confidence])
    selectedIds,      \* Set<string>, kept in insertion order
    agentMessage,     \* status line
    error,            \* title of the error record, or "null"
    tokenClient,      \* service: the GIS token client exists
    authenticated,    \* service: this.authenticated
    initialized,      \* service: this.initialized
    checkInterval,    \* service: the init polling interval is active
    pendingTokens,    \* access-token requests whose callback has not fired
    tasks,            \* async handler invocations suspended at an await
    lastPurge,        \* report of the purge that ended in the last step
    scans,            \* scans started since the page was loaded
    purges,           \* calls of handleCleanup since the page was loaded
    service,          \* which copy of GoogleDriveService runs
    attempts,         \* service: the poll counter of init (part_003)
    gapi,             \* service: this.gapi and this.google are set
    lastToken         \* the token response delivered in the last step

vars == <<variant, state, isAuthenticated, files, candidates, selectedIds,
          agentMessage, error, tokenClient, authenticated, initialized,
          checkInterval, pendingTokens, tasks, lastPurge, scans, purges,
          service, attempts, gapi, lastToken>>

(***************************************************************************)
(* Bounds of the model.  scans and purges count the handler invocations of *)
(* one page load; a reload starts them over.                               *)
(***************************************************************************)
MaxCands == 2      \* longest candidate list the classifier returns
MaxPending == 1    \* token requests outstanding at the same time
MaxScans == 2      \* scans started per page load
MaxPurges == 1     \* calls of handleCleanup per page load

(***************************************************************************)
(* Values.                                                                 *)
(***************************************************************************)
Variants == {"App1", "App2", "App3", "Part1a", "Part1b"}

\* The copies of GoogleDriveService: services/googleDriveService.ts,
\* unnamed/part_003 and unnamed/part_004.
Services == {"Main", "Part3", "Part4"}

\* init of part_003 gives up once attempts exceeds this (`attempts > 20`).
AttemptLimit == 20

\* The copies that start a scan from the auth-change callback, always log in
\* on the live button, select every candidate of a demo audit, reload the
\* page from the logo and the COMPLETED block, hide the LANDING block while
\* an error is shown and leave files/candidates alone after a purge.
EarlyCopies == {"App2", "Part1a", "Part1b"}

AppState == {"LANDING", "AUTHENTICATING", "SCANNING", "ANALYZING",
             "REVIEWING", "TRASHING", "COMPLETED"}

\* File ids are strings; they are kept as tuples of characters because
\* trashFile looks at the first character.
M1 == <<"m", "1">>
M2 == <<"m", "2">>
M3 == <<"m", "3">>
M4 == <<"m", "4">>
M5 == <<"m", "5">>
A1 == <<"a", "1">>
MZ == <<"m", "z">>
X9 == <<"x", "9">>

MOCK_FILES == CASE variant \in {"App2", "Part1a"} -> <<M1, M2, M3, M4>>
                [] variant = "Part1b" -> <<M1, M2, M3>>
                [] OTHER -> <<M1, M2, M3, M4, M5>>

\* What files.list may answer for the connected account.
LiveFileLists == { <<A1, MZ>> }

\* Confidence in hundredths: 70 is 0.7.
Confidences == {70, 90}

\* The auto-selection threshold of each copy, in hundredths.
Threshold == IF variant = "App3" THEN 80 ELSE 70

NoPurge == [ended |-> FALSE, ids |-> <<>>, listed |-> TRUE, mock |-> FALSE,
            attempted |-> <<>>, sent |-> <<>>, failed |-> <<>>]

(***************************************************************************)
(* Sequence helpers: the array and Set operations the handlers use.        *)
(***************************************************************************)
Range(s) == {s[k] : k \in 1..Len(s)}

Has(s, x) == \E k \in 1..Len(s) : s[k] = x

\* new Set(array): first occurrences, in order.
RECURSIVE NewSet(_)
NewSet(s) ==
    IF s = <<>> THEN <<>>
    ELSE LET init == NewSet(SubSeq(s, 1, Len(s) - 1))
             x == s[Len(s)]
         IN IF Has(init, x) THEN init ELSE Append(init, x)

\* Set.delete
Delete(s, x) == SelectSeq(s, LAMBDA y : y # x)

\* array.filter(e => !sel.has(e))
Without(s, sel) == SelectSeq(s, LAMBDA y : ~Has(sel, y))

CandIds(cs) == [k \in 1..Len(cs) |-> cs[k].id]

RemoveAt(s, k) == SubSeq(s, 1, k - 1) \o SubSeq(s, k + 1, Len(s))

\* String.prototype.startsWith for a one-character prefix.
StartsWith(id, c) == Len(id) >= 1 /\ id[1] = c

(***************************************************************************)
(* The classifier (services/geminiService.ts, analyzeFilesWithGemini) is   *)
(* an external call: it answers any candidate list, or throws.  Its ids    *)
(* are not checked against the files it was given, so the answers range    *)
(* over the first and last fetched id and over an id no file has.          *)
(***************************************************************************)
PoolIds(fetched) ==
    (IF fetched = <<>> THEN {} ELSE {fetched[1], fetched[Len(fetched)]})
        \cup {X9}

Candidate(fetched) == [id : PoolIds(fetched), confidence : Confidences]

ClassifierOutputs(fetched) ==
    UNION {[1..n -> Candidate(fetched)] : n \in 0..MaxCands}

(***************************************************************************)
(* Suspended handler invocations.  A task keeps what its closure captured. *)
(***************************************************************************)
ScanTask(pc, isDemo, fetched) ==
    [op |-> "startAnalysis", pc |-> pc, isDemo |-> isDemo, fetched |-> fetched,
     ids |-> <<>>, i |-> 0, files |-> <<>>, cands |-> <<>>, sent |-> <<>>]

\* handleCleanup closes over selectedIds, files and candidates of the render
\* in which the button was pressed.
CleanupTask ==
    [op |-> "handleCleanup", pc |-> "trashFile", isDemo |-> FALSE,
     fetched |-> <<>>, ids |-> selectedIds, i |-> 0, files |-> files,
     cands |-> candidates, sent |-> <<>>]

\* trashFile returns at once for an id that starts with 'm': the awaiting
\* handler resumes in a microtask, before any event or network answer.
ResumesInMicrotask(t) ==
    /\ t.pc = "trashFile"
    /\ StartsWith(t.ids[t.i + 1], "m")

MicrotaskPending == \E k \in 1..Len(tasks) : ResumesInMicrotask(tasks[k])

\* Events and network answers are macrotasks.
Macrotask == ~MicrotaskPending

(***************************************************************************)
(* Construction: the useState initial values and the service's fields.     *)
(***************************************************************************)
FreshService(v, s) ==
    /\ variant = v
    /\ service = s
    /\ attempts = 0
    /\ gapi = FALSE
    /\ lastToken = "none"
    /\ state = "LANDING"
    /\ isAuthenticated = FALSE
    /\ files = <<>>
    /\ candidates = <<>>
    /\ selectedIds = <<>>
    /\ agentMessage = "System standby..."
    /\ error = "null"
    /\ tokenClient = FALSE
    /\ authenticated = FALSE
    /\ initialized = FALSE
    /\ checkInterval = TRUE
    /\ pendingTokens = 0
    /\ tasks = <<>>
    /\ lastPurge = NoPurge
    /\ scans = 0
    /\ purges = 0

\* App.tsx imports ./services/googleDriveService.
Fresh(v) == FreshService(v, "Main")

Init == \E v \in Variants : Fresh(v)

\* window.location.reload(): the page, its handlers and the service start over.
Reload ==
    /\ variant' = variant
    /\ service' = service
    /\ attempts' = 0
    /\ gapi' = FALSE
    /\ state' = "LANDING"
    /\ isAuthenticated' = FALSE
    /\ files' = <<>>
    /\ candidates' = <<>>
    /\ selectedIds' = <<>>
    /\ agentMessage' = "System standby..."
    /\ error' = "null"
    /\ tokenClient' = FALSE
    /\ authenticated' = FALSE
    /\ initialized' = FALSE
    /\ checkInterval' = TRUE
    /\ pendingTokens' = 0
    /\ tasks' = <<>>
    /\ lastPurge' = NoPurge
    /\ lastToken' = "none"
    /\ scans' = 0
    /\ purges' = 0

(***************************************************************************)
(* GoogleDriveService.                                                     *)
(***************************************************************************)
\* init: one tick of the 500 ms interval.  Once both SDK globals are there
\* the interval is cleared and the client is set up (setupGisClient, or
\* setupClient of part_003 and part_004, whose gapi.load callback always
\* resolves).  part_003 counts the ticks and gives up after AttemptLimit.
InitTick(loaded, ok) ==
    /\ Macrotask
    /\ checkInterval
    /\ ~loaded => ok
    /\ attempts' = IF service = "Part3" THEN attempts + 1 ELSE attempts
    /\ IF loaded
         THEN /\ checkInterval' = FALSE
              /\ gapi' = TRUE
              /\ tokenClient' = ok
              /\ initialized' = ok
         ELSE /\ checkInterval' = ~(service = "Part3" /\ attempts' > AttemptLimit)
              /\ UNCHANGED <<gapi, tokenClient, initialized>>
    /\ lastPurge' = NoPurge
    /\ lastToken' = "none"
    /\ UNCHANGED <<scans, purges, variant, service, state, isAuthenticated,
                   files, candidates, selectedIds, agentMessage, error,
                   authenticated, pendingTokens, tasks>>

\* login() of part_003 begins with `if (!this.tokenClient) await
\* this.setupClient()`: setupClient returns at once when initialized, throws
\* (this.gapi is null) before the SDKs were seen, and otherwise sets the
\* client up again.  The other copies have no such retry.
LoginSetup(ok) ==
    IF service = "Part3" /\ ~tokenClient /\ ~initialized /\ gapi
      THEN /\ tokenClient' = ok
           /\ initialized' = ok
      ELSE UNCHANGED <<tokenClient, initialized>>

\* Mutant: login does not look at the token client
\* (`if (!this.tokenClient) throw` forgotten).
LoginThrowsOnRequestOnly(requestOk) == ~requestOk

\* login(): throws when the token client is missing (after the retry of
\* part_003) or the request throws.
LoginThrows(requestOk) == ~tokenClient' \/ ~requestOk

\* Mutant: the callback does not look at resp.error.
AcceptsTokenAlways(respError) == TRUE

\* The token callback begins with `if (resp.error) { ...; return; }`.
AcceptsToken(respError) == ~respError

(***************************************************************************)
(* App: what differs between the copies of the component.                  *)
(***************************************************************************)
IsEarlyCopy == variant \in EarlyCopies

\* The second copy of App.tsx: its error panel has a Launch Demo Audit
\* button, and its Retry button reloads the page.
IsSecondCopy == variant = "App2"

\* handleCleanup begins with `if (selectedIds.size === 0) return;`.
HasGuard == variant \in {"App1", "App3", "Part1b"}

\* The demo branch of startAnalysis awaits the classifier inside a try.
DemoCatches == variant \notin {"Part1a", "Part1b"}

\* The buttons that call startAnalysis are rendered.
StartButtonShown(isDemo) ==
    IF IsEarlyCopy
      THEN \/ state = "LANDING" /\ error = "null"
           \/ IsSecondCopy /\ isDemo /\ error # "null"
      ELSE state = "LANDING"

\* Mutant: the tie at the threshold is selected too (>= for >).
HighConfidenceIdsInclusive(cs) ==
    CandIds(SelectSeq(cs, LAMBDA c : c.confidence >= Threshold))

\* analysis.candidates.filter(c => c.confidence > 0.7).map(c => c.id)
HighConfidenceIds(cs) ==
    CandIds(SelectSeq(cs, LAMBDA c : c.confidence > Threshold))

\* The Set handed to setSelectedIds when an analysis arrives.
InitialSelection(t, cs) ==
    NewSet(IF IsEarlyCopy /\ t.isDemo THEN CandIds(cs)
           ELSE HighConfidenceIds(cs))

\* Mutant: a card is rendered for every file, candidate or not.
RenderedIdsEveryFile == Range(files)

\* The ids of the cards the REVIEWING block renders: candidates with a file.
RenderedIds == {candidates[k].id : k \in {j \in 1..Len(candidates) :
                                            Has(files, candidates[j].id)}}

\* Mutant: onSelect adds the id without looking whether it is selected
\* (the next.delete branch forgotten).
ToggledAddOnly(sel, id) == IF Has(sel, id) THEN sel ELSE Append(sel, id)

\* onSelect of a card.
Toggled(sel, id) == IF Has(sel, id) THEN Delete(sel, id) ELSE Append(sel, id)

(***************************************************************************)
(* The size statistics of the third copy (useMemo over files, candidates). *)
(* DriveFile.size is an optional string of decimal digits, a byte count;   *)
(* the model counts in units of 500 bytes.  Google-native documents come   *)
(* without a size.                                                         *)
(***************************************************************************)
NoSize == "undefined"

FileIds == {M1, M2, M3, M4, M5, A1, MZ, X9}

\* The size field of the file with each id (MOCK_FILES of the third copy).
Size ==
    [id \in FileIds |->
        CASE id \in {M1, M2} -> <<"2", "4", "0", "0", "0">>
          [] id = M3 -> <<"4", "8", "0", "0", "0", "0", "0">>
          [] id = M4 -> <<"9", "0", "0", "0", "0", "0">>
          [] id = M5 -> <<"3">>
          [] id = MZ -> <<"7">>
          [] OTHER -> NoSize]

\* The same metadata with every absent size given as the string "0".
SizeAbsentAsZero ==
    [id \in FileIds |-> IF Size[id] = NoSize THEN <<"0">> ELSE Size[id]]

DigitValue(c) ==
    CASE c = "0" -> 0 [] c = "1" -> 1 [] c = "2" -> 2 [] c = "3" -> 3
      [] c = "4" -> 4 [] c = "5" -> 5 [] c = "6" -> 6 [] c = "7" -> 7
      [] c = "8" -> 8 [] c = "9" -> 9

\* parseInt of a string of decimal digits.
RECURSIVE ParseInt(_)
ParseInt(str) ==
    IF str = <<>> THEN 0
    ELSE 10 * ParseInt(SubSeq(str, 1, Len(str) - 1)) + DigitValue(str[Len(str)])

\* f.size ? parseInt(f.size) : 0  (undefined and "" are falsy)
SizeOrZero(size) == IF size = NoSize \/ size = <<>> THEN 0 ELSE ParseInt(size)

\* files.reduce((acc, f) => acc + (f.size ? parseInt(f.size) : 0), 0)
RECURSIVE TotalSize(_, _)
TotalSize(fs, sizeOf) ==
    IF fs = <<>> THEN 0
    ELSE TotalSize(SubSeq(fs, 1, Len(fs) - 1), sizeOf)
             + SizeOrZero(sizeOf[fs[Len(fs)]])

\* candidates.reduce over the file found for each candidate; a candidate
\* without a file adds 0.
RECURSIVE CandidateSize(_, _, _)
CandidateSize(cs, fs, sizeOf) ==
    IF cs = <<>> THEN 0
    ELSE CandidateSize(SubSeq(cs, 1, Len(cs) - 1), fs, sizeOf)
             + (IF Has(fs, cs[Len(cs)].id)
                  THEN SizeOrZero(sizeOf[cs[Len(cs)].id]) ELSE 0)

(***************************************************************************)
(* startAnalysis(isDemo), up to its first await.                           *)
(***************************************************************************)
StartAnalysis(isDemo, requestOk) ==
    /\ Macrotask
    /\ StartButtonShown(isDemo)
    /\ lastPurge' = NoPurge
    /\ lastToken' = "none"
    /\ UNCHANGED <<purges, variant, service, attempts, gapi, isAuthenticated,
                   candidates, selectedIds, authenticated, checkInterval>>
    /\ IF (IsEarlyCopy /\ ~isDemo) \/ (~IsEarlyCopy /\ ~isDemo /\ ~isAuthenticated)
         THEN \* driveService.login()
              /\ agentMessage' = IF variant = "App1"
                                   THEN "Handshaking with Google..."
                                   ELSE agentMessage
              /\ \E setupOk \in BOOLEAN : LoginSetup(setupOk)
              /\ IF LoginThrows(requestOk)
                   THEN /\ error' = "Connection Failed"
                        /\ UNCHANGED pendingTokens
                   ELSE /\ pendingTokens < MaxPending
                        /\ error' = "null"
                        /\ pendingTokens' = pendingTokens + 1
              /\ UNCHANGED <<state, files, tasks, scans>>
         ELSE /\ scans < MaxScans
              /\ scans' = scans + 1
              /\ requestOk
              /\ error' = "null"
              /\ UNCHANGED <<pendingTokens, tokenClient, initialized>>
              /\ IF isDemo
                   THEN /\ files' = MOCK_FILES
                        /\ state' = "ANALYZING"
                        /\ agentMessage' = "AI Agent reasoning over metadata..."
                        /\ tasks' = Append(tasks, ScanTask("classify", TRUE, MOCK_FILES))
                   ELSE /\ state' = "SCANNING"
                        /\ agentMessage' = "Parsing file hierarchy..."
                        /\ tasks' = Append(tasks, ScanTask("listFiles", FALSE, <<>>))
                        /\ UNCHANGED files

(***************************************************************************)
(* The token callback of setupGisClient and the auth-change callback that  *)
(* App handed to init.  initGapi always resolves, so the callback is taken *)
(* as one step from the token response to onAuthChange(true); in part_003  *)
(* and part_004 the callback has no await.                                 *)
(***************************************************************************)
TokenCallback(respError) ==
    /\ Macrotask
    /\ pendingTokens > 0
    /\ pendingTokens' = pendingTokens - 1
    /\ lastPurge' = NoPurge
    /\ lastToken' = IF respError THEN "error" ELSE "granted"
    /\ UNCHANGED <<purges, variant, service, attempts, gapi, files,
                   candidates, selectedIds, error, tokenClient, initialized,
                   checkInterval>>
    /\ IF ~AcceptsToken(respError)
         THEN UNCHANGED <<authenticated, isAuthenticated, agentMessage, state,
                          tasks, scans>>
         ELSE /\ authenticated' = TRUE
              /\ isAuthenticated' = TRUE
              /\ IF IsEarlyCopy
                   THEN \* startScan()
                        /\ scans < MaxScans
                        /\ scans' = scans + 1
                        /\ state' = "SCANNING"
                        /\ agentMessage' = "Parsing file hierarchy..."
                        /\ tasks' = Append(tasks, ScanTask("listFiles", FALSE, <<>>))
                   ELSE /\ agentMessage' = "Drive connected. Ready to audit."
                        /\ UNCHANGED <<state, tasks, scans>>

\* Mutant: the catch block records the error and leaves the phase alone
\* (setState(AppState.LANDING) forgotten).
CatchScanKeepsPhase ==
    /\ error' = "Audit Interrupted"
    /\ UNCHANGED state

\* The catch block of startAnalysis / startScan (lines 73-80).
CatchScan ==
    /\ error' = "Audit Interrupted"
    /\ state' = "LANDING"

(***************************************************************************)
(* startAnalysis / startScan resumed after listFiles.                      *)
(***************************************************************************)
ListFilesReturn(k, ok, list) ==
    /\ Macrotask
    /\ k \in 1..Len(tasks)
    /\ tasks[k].pc = "listFiles"
    /\ ok => authenticated
    /\ ~ok => list = <<A1, MZ>>
    /\ lastPurge' = NoPurge
    /\ lastToken' = "none"
    /\ UNCHANGED <<scans, purges, variant, service, attempts, gapi,
                   isAuthenticated, candidates, selectedIds, tokenClient,
                   authenticated, initialized, checkInterval, pendingTokens>>
    /\ IF ok
         THEN /\ files' = list
              /\ state' = "ANALYZING"
              /\ agentMessage' = "AI Agent reasoning over metadata..."
              /\ tasks' = [tasks EXCEPT ![k] = ScanTask("classify", FALSE, list)]
              /\ UNCHANGED error
         ELSE /\ CatchScan
              /\ tasks' = RemoveAt(tasks, k)
              /\ UNCHANGED <<files, agentMessage>>

(***************************************************************************)
(* startAnalysis / startScan resumed after analyzeFilesWithGemini.  In the  *)
(* copies whose demo branch has no try, a throw of the classifier ends the *)
(* handler as an unhandled rejection: no cell is written.                  *)
(***************************************************************************)
ClassifyReturn(k, ok, analysis) ==
    /\ Macrotask
    /\ k \in 1..Len(tasks)
    /\ tasks[k].pc = "classify"
    /\ ~ok => analysis = <<>>
    /\ lastPurge' = NoPurge
    /\ lastToken' = "none"
    /\ tasks' = RemoveAt(tasks, k)
    /\ UNCHANGED <<scans, purges, variant, service, attempts, gapi,
                   isAuthenticated, files, tokenClient, authenticated,
                   initialized, checkInterval, pendingTokens>>
    /\ IF ok
         THEN /\ candidates' = analysis
              /\ selectedIds' = InitialSelection(tasks[k], analysis)
              /\ agentMessage' = IF tasks[k].isDemo /\ ~DemoCatches
                                   THEN agentMessage ELSE "summary"
              /\ state' = "REVIEWING"
              /\ UNCHANGED error
         ELSE /\ IF tasks[k].isDemo /\ ~DemoCatches
                   THEN UNCHANGED <<error, state>>
                   ELSE CatchScan
              /\ UNCHANGED <<candidates, selectedIds, agentMessage>>

(***************************************************************************)
(* Selection events of the REVIEWING block.                                *)
(***************************************************************************)
Toggle(id) ==
    /\ Macrotask
    /\ state = "REVIEWING"
    /\ id \in RenderedIds
    /\ selectedIds' = Toggled(selectedIds, id)
    /\ lastPurge' = NoPurge
    /\ lastToken' = "none"
    /\ UNCHANGED <<scans, purges, variant, service, attempts, gapi, state,
                   isAuthenticated, files, candidates, agentMessage, error,
                   tokenClient, authenticated, initialized, checkInterval,
                   pendingTokens, tasks>>

\* Mutant: Select All selects the id of every file, candidate or not.
SelectAllOfFiles ==
    /\ Macrotask
    /\ variant = "App3"
    /\ state = "REVIEWING"
    /\ selectedIds' = NewSet(files)
    /\ lastPurge' = NoPurge
    /\ lastToken' = "none"
    /\ UNCHANGED <<scans, purges, variant, service, attempts, gapi, state,
                   isAuthenticated, files, candidates, agentMessage, error,
                   tokenClient, authenticated, initialized, checkInterval,
                   pendingTokens, tasks>>

\* The Select All and Clear buttons exist in the third copy only.
SelectAll ==
    /\ Macrotask
    /\ variant = "App3"
    /\ state = "REVIEWING"
    /\ selectedIds' = NewSet(CandIds(candidates))
    /\ lastPurge' = NoPurge
    /\ lastToken' = "none"
    /\ UNCHANGED <<scans, purges, variant, service, attempts, gapi, state,
                   isAuthenticated, files, candidates, agentMessage, error,
                   tokenClient, authenticated, initialized, checkInterval,
                   pendingTokens, tasks>>

Clear ==
    /\ Macrotask
    /\ variant = "App3"
    /\ state = "REVIEWING"
    /\ selectedIds' = <<>>
    /\ lastPurge' = NoPurge
    /\ lastToken' = "none"
    /\ UNCHANGED <<scans, purges, variant, service, attempts, gapi, state,
                   isAuthenticated, files, candidates, agentMessage, error,
                   tokenClient, authenticated, initialized, checkInterval,
                   pendingTokens, tasks>>

(***************************************************************************)
(* handleCleanup, up to its first await.  The purge button is rendered in  *)
(* REVIEWING and disabled while the selection is empty.                    *)
(***************************************************************************)
HandleCleanup ==
    /\ Macrotask
    /\ state = "REVIEWING"
    /\ selectedIds # <<>>
    /\ purges < MaxPurges
    /\ purges' = purges + 1
    /\ state' = "TRASHING"
    /\ agentMessage' = "Trashing files..."
    /\ tasks' = Append(tasks, CleanupTask)
    /\ lastPurge' = NoPurge
    /\ lastToken' = "none"
    /\ UNCHANGED <<scans, variant, service, attempts, gapi, isAuthenticated,
                   files, candidates, selectedIds, error, tokenClient,
                   authenticated, initialized, checkInterval, pendingTokens>>

\* The report of a purge that ended: the snapshot it ran over, whether each
\* of its ids had a file when it was taken, whether the files were the demo
\* set, the ids trashFile was called with, the ids sent to files.update, the
\* id that threw.
PurgeReport(t, attempted, sent, failed) ==
    [ended |-> TRUE, ids |-> t.ids,
     listed |-> \A id \in Range(t.ids) : Has(t.files, id),
     mock |-> t.files = MOCK_FILES,
     attempted |-> attempted, sent |-> sent, failed |-> failed]

\* Mutant: the purged ids are filtered out but stay selected
\* (setSelectedIds(new Set()) forgotten).
FinishCleanupKeepsSelection(t) ==
    /\ state' = "COMPLETED"
    /\ IF IsEarlyCopy
         THEN UNCHANGED <<files, candidates, selectedIds>>
         ELSE /\ files' = Without(t.files, t.ids)
              /\ candidates' = SelectSeq(t.cands, LAMBDA c : ~Has(t.ids, c.id))
              /\ UNCHANGED selectedIds
    /\ UNCHANGED error

\* The statements after the loop (lines 92-97; the early copies have
\* setState(COMPLETED) only).
FinishCleanup(t) ==
    /\ state' = "COMPLETED"
    /\ IF IsEarlyCopy
         THEN UNCHANGED <<files, candidates, selectedIds>>
         ELSE /\ files' = Without(t.files, t.ids)
              /\ candidates' = SelectSeq(t.cands, LAMBDA c : ~Has(t.ids, c.id))
              /\ selectedIds' = <<>>
    /\ UNCHANGED error

\* The catch block (lines 98-101).
CatchCleanup ==
    /\ error' = "Cleanup Error"
    /\ state' = "REVIEWING"
    /\ UNCHANGED <<files, candidates, selectedIds>>

(***************************************************************************)
(* handleCleanup resumed after `await driveService.trashFile(id)`.         *)
(***************************************************************************)
TrashReturn(k, ok) ==
    /\ k \in 1..Len(tasks)
    /\ tasks[k].pc = "trashFile"
    /\ ResumesInMicrotask(tasks[k]) \/ Macrotask
    /\ ResumesInMicrotask(tasks[k]) => ok
    /\ lastToken' = "none"
    /\ LET t == tasks[k]
           id == t.ids[t.i + 1]
           sent == IF StartsWith(id, "m") THEN t.sent ELSE Append(t.sent, id)
           attempted == SubSeq(t.ids, 1, t.i + 1)
       IN  IF ~ok
             THEN /\ CatchCleanup
                  /\ tasks' = RemoveAt(tasks, k)
                  /\ lastPurge' = PurgeReport(t, attempted, sent, <<id>>)
             ELSE IF t.i + 1 = Len(t.ids)
                    THEN /\ FinishCleanup(t)
                         /\ tasks' = RemoveAt(tasks, k)
                         /\ lastPurge' = PurgeReport(t, attempted, sent, <<>>)
                    ELSE /\ tasks' = [tasks EXCEPT ![k].i = t.i + 1,
                                                   ![k].sent = sent]
                         /\ lastPurge' = NoPurge
                         /\ UNCHANGED <<state, files, candidates, selectedIds,
                                        error>>
    /\ UNCHANGED <<scans, purges, variant, service, attempts, gapi,
                   isAuthenticated, agentMessage, tokenClient, authenticated,
                   initialized, checkInterval, pendingTokens>>

(***************************************************************************)
(* Navigation.                                                             *)
(***************************************************************************)
GoLanding ==
    /\ state' = "LANDING"
    /\ lastPurge' = NoPurge
    /\ lastToken' = "none"
    /\ UNCHANGED <<scans, purges, variant, service, attempts, gapi,
                   isAuthenticated, files, candidates, selectedIds,
                   agentMessage, error, tokenClient, authenticated,
                   initialized, checkInterval, pendingTokens, tasks>>

\* The logo in the nav bar.
LogoClick ==
    /\ Macrotask
    /\ IF IsEarlyCopy THEN Reload ELSE GoLanding

\* The button of the COMPLETED block.
ReturnToDashboard ==
    /\ Macrotask
    /\ state = "COMPLETED"
    /\ IF IsEarlyCopy THEN Reload ELSE GoLanding

\* The button of the error panel.
DismissError ==
    /\ Macrotask
    /\ error # "null"
    /\ IF IsSecondCopy
         THEN Reload
         ELSE /\ error' = "null"
              /\ lastPurge' = NoPurge
              /\ lastToken' = "none"
              /\ UNCHANGED <<scans, purges, variant, service, attempts, gapi,
                             state, isAuthenticated, files, candidates,
                             selectedIds, agentMessage, tokenClient,
                             authenticated, initialized, checkInterval,
                             pendingTokens, tasks>>

(***************************************************************************)
(* The system.                                                             *)
(***************************************************************************)
Next ==
    \/ \E loaded, ok \in BOOLEAN : InitTick(loaded, ok)
    \/ \E isDemo, requestOk \in BOOLEAN : StartAnalysis(isDemo, requestOk)
    \/ \E respError \in BOOLEAN : TokenCallback(respError)
    \/ \E k \in 1..Len(tasks), ok \in BOOLEAN, list \in LiveFileLists :
          ListFilesReturn(k, ok, list)
    \/ \E k \in 1..Len(tasks), ok \in BOOLEAN :
          \E analysis \in ClassifierOutputs(tasks[k].fetched) :
              ClassifyReturn(k, ok, analysis)
    \/ \E id \in RenderedIds : Toggle(id)
    \/ SelectAll
    \/ Clear
    \/ HandleCleanup
    \/ \E k \in 1..Len(tasks), ok \in BOOLEAN : TrashReturn(k, ok)
    \/ LogoClick
    \/ ReturnToDashboard
    \/ DismissError

Spec == Init /\ [][Next]_vars

(***************************************************************************)
(* handleCleanup called as an operation of its own, past the disabled      *)
(* attribute of the button, while the selection is empty.  A copy with the *)
(* guard returns at once.  A copy without it runs setState(TRASHING), a    *)
(* loop over no ids and setState(COMPLETED) without reaching an await.     *)
(***************************************************************************)
HandleCleanupEmpty ==
    /\ Macrotask
    /\ state = "REVIEWING"
    /\ selectedIds = <<>>
    /\ purges < MaxPurges
    /\ purges' = purges + 1
    /\ lastPurge' = NoPurge
    /\ lastToken' = "none"
    /\ IF HasGuard
         THEN UNCHANGED <<state, agentMessage>>
         ELSE /\ state' = "COMPLETED"
              /\ agentMessage' = "Trashing files..."
    /\ UNCHANGED <<scans, variant, service, attempts, gapi, isAuthenticated,
                   files, candidates, selectedIds, error, tokenClient,
                   authenticated, initialized, checkInterval, pendingTokens,
                   tasks>>

NextHandlers == Next \/ HandleCleanupEmpty

SpecHandlers == Init /\ [][NextHandlers]_vars

(***************************************************************************)
(* The service on its own: one service object of any copy under any copy   *)
(* of the component, from construction on, with the events that reach the  *)
(* service's authentication state: the interval's ticks, the live button   *)
(* and the token responses.  The interval timer keeps firing while it is   *)
(* active; nothing makes the SDK scripts load.                             *)
(***************************************************************************)
InitService == \E v \in Variants, s \in Services : FreshService(v, s)

NextService ==
    \/ \E loaded, ok \in BOOLEAN : InitTick(loaded, ok)
    \/ \E requestOk \in BOOLEAN : StartAnalysis(FALSE, requestOk)
    \/ \E respError \in BOOLEAN : TokenCallback(respError)

SpecService ==
    InitService /\ [][NextService]_vars /\ WF_vars(InitTick(FALSE, TRUE))

TypeOK ==
    /\ variant \in Variants
    /\ state \in AppState
    /\ isAuthenticated \in BOOLEAN
    /\ Len(tasks) <= MaxScans + MaxPurges
    /\ pendingTokens \in 0..MaxPending
    /\ scans \in 0..MaxScans
    /\ purges \in 0..MaxPurges
    /\ service \in Services
    /\ attempts \in 0..(AttemptLimit + 1)
    /\ gapi \in BOOLEAN
    /\ lastToken \in {"none", "granted", "error"}

(***************************************************************************)
(* Properties.                                                             *)
(***************************************************************************)
\* A purge over ids that all had a file is suspended at a trash call.
PurgeInFlight ==
    \E k \in 1..Len(tasks) :
        /\ tasks[k].op = "handleCleanup"
        /\ \A id \in Range(tasks[k].ids) : Has(tasks[k].files, id)

\* Task k is a scan whose classifier answer arrives in this step.  (Where a
\* throw is an unhandled rejection, a step that ends the task in REVIEWING
\* and writes no cell is the throw.)
Arrives(k) ==
    /\ tasks[k].pc = "classify"
    /\ tasks' = RemoveAt(tasks, k)
    /\ state' = "REVIEWING"
    /\ (tasks[k].isDemo /\ ~DemoCatches) =>
          <<state, candidates, selectedIds>>' # <<state, candidates, selectedIds>>

\* The ids trashFile returned normally for in the purge that just ended.
Succeeded == Range(lastPurge.attempted) \ Range(lastPurge.failed)

\* A purge has just ended, and every id it ran over had a file.
PurgeEnded == lastPurge.ended /\ lastPurge.listed

\* C1: when a purge over listed ids has ended, trashFile was called for
\* every id of the selection it ran over, also for the ids after one whose
\* call failed.
C1_EveryIdAttempted ==
    PurgeEnded => lastPurge.attempted = lastPurge.ids

\* C2: when a purge over listed ids has ended, every id whose trash call
\* succeeded is gone from files and candidates, and every id whose call
\* failed is still in files, in candidates and in the selection.
C2_PurgePostState ==
    PurgeEnded =>
        /\ \A id \in Succeeded :
              ~Has(files, id) /\ ~Has(CandIds(candidates), id)
        /\ \A id \in Range(lastPurge.failed) :
              Has(files, id) /\ Has(CandIds(candidates), id) /\ Has(selectedIds, id)

\* C3: a purge over listed ids ends in COMPLETED, whether or not a trash
\* call failed.
C3_PurgeEndsCompleted ==
    PurgeEnded => state = "COMPLETED"

\* C4: an id without a file is never selected in REVIEWING, and a purge
\* never runs over an id that was not in files when it was started.
C4_OrphanNeverSelected ==
    /\ state = "REVIEWING" => \A id \in Range(selectedIds) : Has(files, id)
    /\ \A k \in 1..Len(tasks) :
          tasks[k].op = "handleCleanup" =>
              \A id \in Range(tasks[k].ids) : Has(tasks[k].files, id)

\* C5: in REVIEWING every element of candidates has the id of a file.
C5_NoOrphanCandidate ==
    state = "REVIEWING" =>
        \A k \in 1..Len(candidates) : Has(files, candidates[k].id)

\* C6: candidates never holds two elements with the same id.
C6_OneCandidatePerId ==
    \A j, k \in 1..Len(candidates) :
        candidates[j].id = candidates[k].id => j = k

\* C7: every selected id is the id of an element of candidates.
C7_SelectionWithinCandidates ==
    \A id \in Range(selectedIds) : Has(CandIds(candidates), id)

\* C7 witness: a purge has just failed and left a selection behind.
C7_Witness ==
    /\ PurgeEnded
    /\ lastPurge.failed # <<>>
    /\ Len(selectedIds) = 2
    /\ state = "REVIEWING"

C9_SingleFlow == Len(tasks) <= 1

\* C10: a purge over listed ids calls trashFile for exactly the ids of its
\* snapshot, and the selection does not change while such a purge is in
\* flight.
C10_SnapshotFrozen ==
    [][/\ PurgeEnded' =>
              Range(lastPurge'.attempted) = Range(lastPurge'.ids)
       /\ (PurgeInFlight /\ PurgeInFlight') => selectedIds' = selectedIds]_vars

\* C11: when a purge over listed ids has ended, trashFile was called exactly
\* once for every id of its selection: none twice, none left out.
C11_OneCallPerId ==
    PurgeEnded =>
        \A id \in Range(lastPurge.ids) :
            Cardinality({k \in 1..Len(lastPurge.attempted) :
                            lastPurge.attempted[k] = id}) = 1

\* C12: a purge of a demo session (the files are MOCK_FILES) sends no id to
\* the provider's files.update.
C12_DemoPurgeSendsNothing ==
    (lastPurge.ended /\ lastPurge.mock) => lastPurge.sent = <<>>

Throws(k) ==
    /\ tasks[k].pc = "classify"
    /\ tasks' = RemoveAt(tasks, k)
    /\ scans' = scans
    /\ state' # "REVIEWING"

\* C14: when the classifier throws, the phase becomes LANDING and the files
\* fetched by the aborted run are discarded.
C14_ThrowDiscardsFiles ==
    [][\A k \in 1..Len(tasks) : Throws(k) =>
          (state' = "LANDING" /\ files' = <<>>)]_vars

\* C15: the phase is SCANNING or ANALYZING only while a scan is suspended at
\* its listFiles or classifier call: once the call has returned or thrown,
\* the phase has left them.
C15_NoScanPhaseWithoutScan ==
    state \in {"SCANNING", "ANALYZING"} =>
        \E k \in 1..Len(tasks) : tasks[k].op = "startAnalysis"

\* The number of scans suspended at the call pc.
NumAt(ts, pc) == Cardinality({k \in 1..Len(ts) : ts[k].pc = pc})

\* A scan leaves its listFiles call in this step (the page is not reloaded).
LeavesListFiles ==
    /\ scans' = scans
    /\ NumAt(tasks', "listFiles") < NumAt(tasks, "listFiles")

\* C16: a scan that leaves listFiles either enters ANALYZING with a
\* classifier call begun, or, when listing failed, begins no classifier
\* call, stores no files and ends in LANDING with the error set.
C16_ListFailureEndsIdle ==
    [][LeavesListFiles =>
          IF NumAt(tasks', "classify") > NumAt(tasks, "classify")
            THEN state' = "ANALYZING"
            ELSE /\ Len(tasks') < Len(tasks)
                 /\ files' = files
                 /\ state' = "LANDING"
                 /\ error' # "null"]_vars

\* C16 witness: the only scan of the page was a live one whose listing
\* failed: LANDING, the error set, no files, nothing in flight.
C16_Witness ==
    /\ scans = 1
    /\ authenticated
    /\ tasks = <<>>
    /\ files = <<>>
    /\ state = "LANDING"
    /\ error = "Audit Interrupted"

\* A scan begins its SCANNING / ANALYZING work in this step.
ScanBegins == scans' = scans + 1

\* C17: a scan begins only while the phase is LANDING.
C17_ScanBeginsInLanding ==
    [][ScanBegins => state = "LANDING"]_vars

\* C18: when a scan begins, candidates and selection are empty and files
\* holds nothing of an earlier run (it is empty, or the demo set that the
\* new run has just stored).
C18_ScanBeginsClean ==
    [][ScanBegins =>
          /\ candidates' = <<>>
          /\ selectedIds' = <<>>
          /\ files' \in {<<>>, MOCK_FILES}]_vars

\* The reset the UI offers after a purge over listed ids has ended:
\* COMPLETED is left for LANDING and no suspended handler ends in the same
\* step.
ResetsFromCompleted ==
    /\ PurgeEnded
    /\ state = "COMPLETED"
    /\ state' = "LANDING"
    /\ \A k \in 1..Len(tasks) : tasks' # RemoveAt(tasks, k)

\* C19: the reset after COMPLETED gives the cells of a fresh session:
\* LANDING, no files, no candidates, no selection, no error.
C19_ResetIsFresh ==
    [][ResetsFromCompleted =>
          /\ files' = <<>>
          /\ candidates' = <<>>
          /\ selectedIds' = <<>>
          /\ error' = "null"]_vars

\* C20: in REVIEWING, for every card id and the current selection S: one
\* toggle flips the membership of that id and of no other id, and two
\* toggles in a row give a selection with the members of S.
C20_ToggleInvolution ==
    state = "REVIEWING" =>
        \A id \in RenderedIds :
            LET once == Toggled(selectedIds, id)
                twice == Toggled(once, id)
            IN  /\ Has(once, id) <=> ~Has(selectedIds, id)
                /\ \A other \in (Range(selectedIds) \cup Range(once)) \ {id} :
                      Has(once, other) <=> Has(selectedIds, other)
                /\ Range(twice) = Range(selectedIds)
                /\ Len(twice) = Len(selectedIds)

\* C20 witness: in the primary copy a card is selected although none of its
\* candidates is above the threshold: a toggle put it there, next to
\* another selected id.
C20_Witness ==
    /\ variant = "App1"
    /\ state = "REVIEWING"
    /\ Len(selectedIds) = 2
    /\ \E id \in RenderedIds :
          /\ Has(selectedIds, id)
          /\ \A k \in 1..Len(candidates) :
                candidates[k].id = id => candidates[k].confidence <= Threshold

\* A selection event of the UI changes the selection in this step: no
\* handler is started or resumed and the page is not reloaded.
SelectionEvent ==
    /\ selectedIds' # selectedIds
    /\ tasks' = tasks
    /\ scans' = scans
    /\ purges' = purges

\* The ids whose membership in the selection differs before and after.
Flipped ==
    (Range(selectedIds) \ Range(selectedIds'))
        \cup (Range(selectedIds') \ Range(selectedIds))

\* C21: a selection event changes the selection only while the phase is
\* and stays REVIEWING, and only for ids of current candidates; in the
\* copies without Select All / Clear it is a toggle, which flips one id.
C21_ToggleOnlyInReviewing ==
    [][SelectionEvent =>
          /\ state = "REVIEWING"
          /\ state' = "REVIEWING"
          /\ Flipped \subseteq Range(CandIds(candidates))
          /\ variant # "App3" => Cardinality(Flipped) = 1]_vars

\* C21 witness: in the primary copy a rendered candidate above the threshold
\* is not selected, and nothing else is: a toggle took it out.
C21_Witness ==
    /\ variant = "App1"
    /\ state = "REVIEWING"
    /\ selectedIds = <<>>
    /\ \E k \in 1..Len(candidates) :
          /\ candidates[k].confidence > Threshold
          /\ candidates[k].id \in RenderedIds

\* C22: a selection event that is not a toggle of one id (Select All or
\* Clear) happens in REVIEWING, leaves files, candidates and the phase
\* alone, and leaves either no id selected or exactly the ids of the
\* current candidates.
C22_SelectAllAndClear ==
    [][(SelectionEvent /\ Cardinality(Flipped) # 1) =>
          /\ variant = "App3"
          /\ state = "REVIEWING"
          /\ state' = "REVIEWING"
          /\ files' = files
          /\ candidates' = candidates
          /\ \/ selectedIds' = <<>>
             \/ Range(selectedIds') = Range(CandIds(candidates))]_vars

\* C22 witness: in the third copy a candidate that has no card and is not
\* above the threshold is selected: only Select All selects it.
C22_Witness ==
    /\ variant = "App3"
    /\ state = "REVIEWING"
    /\ \E id \in Range(selectedIds) :
          /\ id \notin RenderedIds
          /\ \A k \in 1..Len(candidates) :
                candidates[k].id = id => candidates[k].confidence <= Threshold
    /\ Range(selectedIds) = Range(CandIds(candidates))

\* C23: in a session whose only scan was the demo, a purge of the selection
\* {m1} succeeds and ends in COMPLETED with m1 gone from files and m2 still
\* there.
C23_DemoScenario ==
    (lastPurge.ended /\ lastPurge.mock /\ scans = 1 /\ lastPurge.ids = <<M1>>) =>
        /\ lastPurge.failed = <<>>
        /\ state = "COMPLETED"
        /\ ~Has(files, M1)
        /\ Has(files, M2)

\* C25: REVIEWING is entered from ANALYZING or TRASHING only, TRASHING from
\* REVIEWING only, COMPLETED from TRASHING only.
C25_PhaseOrder ==
    [][/\ (state' = "REVIEWING" /\ state # "REVIEWING") =>
              state \in {"ANALYZING", "TRASHING"}
       /\ (state' = "TRASHING" /\ state # "TRASHING") => state = "REVIEWING"
       /\ (state' = "COMPLETED" /\ state # "COMPLETED") => state = "TRASHING"]_vars

\* C24: in the third copy, when files holds a file without a size, totalSize
\* differs from what it is with that size given as "0", and likewise
\* candidateSize when a candidate's file has no size.
C24_UnknownSizeNotZero ==
    variant = "App3" =>
        /\ (\E k \in 1..Len(files) : Size[files[k]] = NoSize) =>
              TotalSize(files, Size) # TotalSize(files, SizeAbsentAsZero)
        /\ (\E k \in 1..Len(candidates) :
                Has(files, candidates[k].id) /\ Size[candidates[k].id] = NoSize) =>
              CandidateSize(candidates, files, Size)
                  # CandidateSize(candidates, files, SizeAbsentAsZero)

\* A step in which driveService.login() ran: a token request went out, or
\* the login error appeared.
LoginStep ==
    \/ pendingTokens' = pendingTokens + 1
    \/ error' = "Connection Failed" /\ error # "Connection Failed"

\* A step in which a live scan begins: a handler suspends at listFiles.
LiveScanBegins ==
    /\ Len(tasks') = Len(tasks) + 1
    /\ tasks'[Len(tasks')].pc = "listFiles"

\* C27: a live start while not authenticated only triggers login.  The step
\* in which login runs leaves the phase at LANDING, suspends no handler at
\* listFiles or at the classifier and keeps files, candidates and selection;
\* without a token client it requests no token and shows the login error.
\* In the copies whose live button looks at isAuthenticated, login runs only
\* while it is false, and the button begins a scan only while it is true.
C27_LiveStartOnlyLogsIn ==
    [][ /\ LoginStep =>
              /\ state = "LANDING" /\ state' = "LANDING"
              /\ tasks' = tasks /\ scans' = scans
              /\ files' = files
              /\ candidates' = candidates
              /\ selectedIds' = selectedIds
              /\ ~IsEarlyCopy => ~isAuthenticated
              /\ ~tokenClient => /\ pendingTokens' = pendingTokens
                                 /\ error' = "Connection Failed"
        /\ (LiveScanBegins /\ ~IsEarlyCopy) => isAuthenticated
      ]_vars

\* C27 witness: in the first copy the live button was pressed before the
\* token client existed; login threw, the error is shown, nothing else moved.
C27_Witness ==
    /\ variant = "App1"
    /\ error = "Connection Failed"
    /\ ~tokenClient
    /\ ~isAuthenticated
    /\ state = "LANDING"
    /\ agentMessage = "Handshaking with Google..."
    /\ scans = 0

\* C29: in a live session, every id a successful purge removed from files
\* was sent to files.update, whatever its first letter.
C29_RemovedWasSubmitted ==
    (PurgeEnded /\ ~lastPurge.mock /\ lastPurge.failed = <<>>) =>
        \A id \in Range(lastPurge.ids) :
            ~Has(files, id) => Has(lastPurge.sent, id)

\* C30: in the first copy of App.tsx, a classifier answer that moves the
\* session to REVIEWING was computed for the files the session holds when
\* it arrives.
C30_ResultIsForHeldFiles ==
    [][variant = "App1" =>
         \A k \in 1..Len(tasks) : Arrives(k) => tasks[k].fetched = files']_vars

\* C26: init terminates: whether or not the SDK globals ever appear, the
\* polling interval is eventually cleared (the promise resolves with it).
C26_InitTerminates == <>(~checkInterval)

\* C28: the authenticated flag and the component's isAuthenticated cell
\* change only from false to true and only in the step that delivers a
\* token response without an error; the step that delivers a response with
\* an error changes neither and runs nothing of the auth-change callback;
\* the cell is never true before the flag.
C28_AuthenticatedOnlyByToken ==
    [][ /\ authenticated' # authenticated =>
              authenticated' /\ lastToken' = "granted"
        /\ isAuthenticated' # isAuthenticated =>
              isAuthenticated' /\ lastToken' = "granted"
        /\ lastToken' = "error" =>
              /\ authenticated' = authenticated
              /\ isAuthenticated' = isAuthenticated
              /\ agentMessage' = agentMessage
              /\ state' = state
              /\ tasks' = tasks
        /\ isAuthenticated' => authenticated'
      ]_vars

\* C28 witness: a token response with an error has just been delivered to a
\* service that was never authenticated.
C28_Witness ==
    /\ lastToken = "error"
    /\ ~authenticated
    /\ ~isAuthenticated
    /\ tokenClient
    /\ pendingTokens = 0

====
